---- MODULE Spec2Model ----
\* Model of lib/route.js: the Route constructor's path validation,
\* _generateRegex, match and test.
\*
\* Strings are sequences of character codes (UTF-16 code units), so that
\* toLowerCase, the regular expressions' character classes and
\* decodeURIComponent are computed as the JavaScript runtime computes them.

EXTENDS Integers, Sequences, FiniteSets, TLC

\* ---------------------------------------------------------------------
\* Characters and strings
\* ---------------------------------------------------------------------

\* The printable ASCII characters, codes 32 .. 126 (code 96 by its name).
Ascii ==
  << " ", "!", "\"", "#", "$", "%", "&", "'", "(", ")", "*", "+", ",", "-", ".", "/",
     "0", "1", "2", "3", "4", "5", "6", "7", "8", "9", ":", ";", "<", "=", ">", "?",
     "@", "A", "B", "C", "D", "E", "F", "G", "H", "I", "J", "K", "L", "M", "N", "O",
     "P", "Q", "R", "S", "T", "U", "V", "W", "X", "Y", "Z", "[", "\\", "]", "^", "_",
     "grave", "a", "b", "c", "d", "e", "f", "g", "h", "i", "j", "k", "l", "m", "n", "o",
     "p", "q", "r", "s", "t", "u", "v", "w", "x", "y", "z", "{", "|", "}", "~" >>

\* The code of a character written as a one-character string.
Ord(ch) == 31 + CHOOSE k \in 1..Len(Ascii) : Ascii[k] = ch

\* The string (sequence of codes) spelled by a tuple of characters.
Str(chars) == [k \in 1..Len(chars) |-> Ord(chars[k])]

\* The codes of the characters of a set.
Codes(chars) == {Ord(ch) : ch \in chars}

Range(f) == {f[x] : x \in DOMAIN f}

\* The concatenation of the results of F over a sequence, in order.
FlatMap(F(_), seq) ==
  LET f[k \in 1..(Len(seq) + 1)] == IF k > Len(seq) THEN <<>> ELSE F(seq[k]) \o f[k + 1]
  IN  f[1]

Digits      == Ord("0")..Ord("9")
UpperCase   == Ord("A")..Ord("Z")
LowerCase   == Ord("a")..Ord("z")
\* \w
WordChars   == Digits \cup UpperCase \cup LowerCase \cup {Ord("_")}
\* \d
DigitChars  == Digits

\* String.prototype.toLowerCase / toUpperCase on one code unit (the strings
\* of the model are ASCII before decoding).
LowerChar(c) == IF c \in UpperCase THEN c + 32 ELSE c
UpperChar(c) == IF c \in LowerCase THEN c - 32 ELSE c
toLowerCase(s) == [k \in 1..Len(s) |-> LowerChar(s[k])]

\* The value of a run of decimal digits: parseInt(s, 10).
RECURSIVE parseInt(_)
parseInt(s) ==
  IF s = <<>> THEN 0
  ELSE 10 * parseInt(SubSeq(s, 1, Len(s) - 1)) + (s[Len(s)] - Ord("0"))

\* String.prototype.split('/'): the pieces between the slashes.
RECURSIVE split(_)
split(s) ==
  IF \A k \in 1..Len(s) : s[k] # Ord("/") THEN << s >>
  ELSE LET k == CHOOSE j \in 1..Len(s) :
                  s[j] = Ord("/") /\ \A h \in 1..(j - 1) : s[h] # Ord("/")
       IN  << SubSeq(s, 1, k - 1) >> \o split(SubSeq(s, k + 1, Len(s)))

\* ---------------------------------------------------------------------
\* Regular expressions: the syntax tree of a pattern and the backtracking
\* matcher of RegExp.prototype.exec.
\* ---------------------------------------------------------------------

\* The number of capturing groups of the patterns kids.
GroupsOf(kids) ==
  LET f[k \in 0..Len(kids)] == IF k = 0 THEN 0 ELSE f[k - 1] + kids[k].groups
  IN  f[Len(kids)]

\* groups is the number of capturing groups of the node, and offs[k] the
\* number of those whose left parenthesis stands before kids[k].
Node(t, c, cs, kids) ==
  [t |-> t, c |-> c, cs |-> cs, kids |-> kids,
   groups |-> (IF t = "group" THEN 1 ELSE 0) + GroupsOf(kids),
   offs   |-> [k \in 1..Len(kids) |->
                 (IF t = "group" THEN 1 ELSE 0) + GroupsOf(SubSeq(kids, 1, k - 1))]
              \o <<>>]

Ch(c)        == Node("char", c, {}, <<>>)            \* one character
Class(cs)    == Node("class", 0, cs, <<>>)           \* [...]
NotClass(cs) == Node("nclass", 0, cs, <<>>)          \* [^...]
Cat(kids)    == Node("cat", 0, {}, kids)             \* concatenation
Alt(kids)    == Node("alt", 0, {}, kids)             \* a|b, tried in order
Quant(r, lo, hi) == Node("quant", lo, {hi}, <<r>>)   \* greedy {lo,hi}
Opt(r)       == Quant(r, 0, 1)                       \* r?
Star(r)      == Quant(r, 0, -1)                      \* r*
Plus(r)      == Quant(r, 1, -1)                      \* r+
Times(r, n)  == Quant(r, n, n)                       \* r{n}
Group(r)     == Node("group", 0, {}, <<r>>)          \* capturing ( )
Bol          == Node("bol", 0, {}, <<>>)             \* ^
Eol          == Node("eol", 0, {}, <<>>)             \* $

\* The pattern matching the characters of s literally, one after the other.
Lit(s) ==
  [t |-> "lit", c |-> 0, cs |-> {}, kids |-> s, groups |-> 0, offs |-> <<>>]

\* The number of capturing groups of a pattern.
NumGroups(r) == r.groups

\* An unset capture.
NoCapture == << 0, 0 >>

\* Canonicalize of the 'i' flag.
Canon(c, ic) == IF ic THEN UpperChar(c) ELSE c

\* The character c matches r, a pattern of one character.
CharMatches(r, c, ic) ==
  CASE r.t = "char"   -> Canon(c, ic) = Canon(r.c, ic)
    [] r.t = "class"  -> \E d \in r.cs : Canon(c, ic) = Canon(d, ic)
    [] r.t = "nclass" -> \A d \in r.cs : Canon(c, ic) # Canon(d, ic)

IsCharPattern(r) == r.t \in {"char", "class", "nclass"}

\* The length of the longest run of at most hi (-1: any number of)
\* characters from position i that all match r.
RunLength(r, hi, s, i, ic) ==
  Cardinality({n \in 1..(Len(s) - i + 1) :
                 /\ hi = -1 \/ n <= hi
                 /\ \A k \in i..(i + n - 1) : CharMatches(r, s[k], ic)})

\* A greedy quantifier over a pattern of one character: the longest run
\* first, then each shorter one down to lo characters.
MatchRun(lo, n, i, caps) ==
  IF n < lo THEN <<>>
  ELSE [j \in 1..(n - lo + 1) |-> [pos |-> i + n - j + 1, caps |-> caps]]

\* The captures with those of the repeated part r reset, g capturing
\* groups standing before r in the pattern.
Reset(r, g, caps) ==
  [k \in 1..Len(caps) |->
     IF g < k /\ k <= g + r.groups THEN NoCapture ELSE caps[k]] \o <<>>

\* The ways r matches s from position i, best first, each with the end
\* position and the captures; g capturing groups stand before r in the
\* pattern, so that its own are numbered from g + 1.
RECURSIVE Matches(_, _, _, _, _, _)
RECURSIVE MatchCat(_, _, _, _, _, _)
RECURSIVE MatchAlt(_, _, _, _, _, _, _)
RECURSIVE MatchQuant(_, _, _, _, _, _, _, _)

\* The capture of group n closed on each of the ways its content matches
\* from position i.
Closed(n, i, outs) ==
  IF outs = <<>> THEN <<>>
  ELSE [k \in 1..Len(outs) |->
          [pos  |-> outs[k].pos,
           caps |-> [outs[k].caps EXCEPT ![n] = << i, outs[k].pos >>]]] \o <<>>

Matches(r, s, i, caps, ic, g) ==
  CASE IsCharPattern(r) ->
         IF i <= Len(s) /\ CharMatches(r, s[i], ic)
         THEN << [pos |-> i + 1, caps |-> caps] >> ELSE <<>>
    [] r.t = "lit" ->
         IF /\ i + Len(r.kids) - 1 <= Len(s)
            /\ \A k \in 1..Len(r.kids) : Canon(s[i + k - 1], ic) = Canon(r.kids[k], ic)
         THEN << [pos |-> i + Len(r.kids), caps |-> caps] >> ELSE <<>>
    [] r.t = "bol" ->
         IF i = 1 THEN << [pos |-> i, caps |-> caps] >> ELSE <<>>
    [] r.t = "eol" ->
         IF i = Len(s) + 1 THEN << [pos |-> i, caps |-> caps] >> ELSE <<>>
    [] r.t = "cat" -> MatchCat(r, 1, << [pos |-> i, caps |-> caps] >>, s, ic, g)
    [] r.t = "alt" -> MatchAlt(r, 1, s, i, caps, ic, g)
    [] r.t = "group" -> Closed(g + 1, i, Matches(r.kids[1], s, i, caps, ic, g + 1))
    [] r.t = "quant" /\ IsCharPattern(r.kids[1]) ->
         MatchRun(r.c, RunLength(r.kids[1], CHOOSE h \in r.cs : TRUE, s, i, ic), i, caps)
    [] r.t = "quant" ->
         MatchQuant(r, 0, s, i, caps,
                    Matches(r.kids[1], s, i, Reset(r, g, caps), ic, g), ic, g)

\* The ways the parts of r from the k-th on match after those before it
\* matched in the ways outs, best first.
MatchCat(r, k, outs, s, ic, g) ==
  CASE k > Len(r.kids) -> outs
    [] outs = <<>> -> <<>>
    [] Len(outs) = 1 ->
         MatchCat(r, k + 1,
                  Matches(r.kids[k], s, outs[1].pos, outs[1].caps, ic, g + r.offs[k]),
                  s, ic, g)
    [] OTHER ->
         MatchCat(r, k + 1,
                  FlatMap(LAMBDA o : Matches(r.kids[k], s, o.pos, o.caps, ic, g + r.offs[k]),
                          outs),
                  s, ic, g)

\* The alternatives of r from the k-th on, each tried in its turn.
MatchAlt(r, k, s, i, caps, ic, g) ==
  IF k = Len(r.kids) THEN Matches(r.kids[k], s, i, caps, ic, g + r.offs[k])
  ELSE Matches(r.kids[k], s, i, caps, ic, g + r.offs[k])
         \o MatchAlt(r, k + 1, s, i, caps, ic, g)

\* A greedy quantifier at position i after count iterations, outs being
\* the ways the repeated part matches from i (with its captures reset):
\* one more iteration first, then none. An iteration that matches the
\* empty string once lo are done is not taken.
MatchQuant(r, count, s, i, caps, outs, ic, g) ==
  CASE (count >= (CHOOSE h \in r.cs : TRUE) /\ (CHOOSE h \in r.cs : TRUE) # -1)
         \/ outs = <<>> ->
         IF count >= r.c THEN << [pos |-> i, caps |-> caps] >> ELSE <<>>
    [] Len(outs) = 1 ->
         (IF outs[1].pos = i /\ count >= r.c THEN <<>>
          ELSE MatchQuant(r, count + 1, s, outs[1].pos, outs[1].caps,
                          Matches(r.kids[1], s, outs[1].pos,
                                  Reset(r, g, outs[1].caps), ic, g),
                          ic, g))
         \o (IF count >= r.c THEN << [pos |-> i, caps |-> caps] >> ELSE <<>>)
    [] OTHER ->
         FlatMap(LAMBDA o :
                   IF o.pos = i /\ count >= r.c THEN <<>>
                   ELSE MatchQuant(r, count + 1, s, o.pos, o.caps,
                                   Matches(r.kids[1], s, o.pos, Reset(r, g, o.caps), ic, g),
                                   ic, g),
                 outs)
         \o (IF count >= r.c THEN << [pos |-> i, caps |-> caps] >> ELSE <<>>)

\* A RegExp object.
RegExp(source, ignoreCase, global) ==
  [source |-> source, ignoreCase |-> ignoreCase, global |-> global,
   lastIndex |-> 0]

\* A string value or undefined.
Undefined   == [defined |-> FALSE, str |-> <<>>]
Defined(s)  == [defined |-> TRUE, str |-> s]

\* The array of a match from position i that ended as o: the whole match
\* and the value of each capturing group.
MatchArray(s, i, o) ==
  << Defined(SubSeq(s, i, o.pos - 1)) >> \o
  [k \in 1..Len(o.caps) |->
     IF o.caps[k] = NoCapture THEN Undefined
     ELSE Defined(SubSeq(s, o.caps[k][1], o.caps[k][2] - 1))]

\* The ways re matches s from position i, best first.
MatchAt(re, s, i) ==
  Matches(re.source, s, i, [k \in 1..NumGroups(re.source) |-> NoCapture] \o <<>>,
          re.ignoreCase, 0)

Found(s, i, o) ==
  [found |-> TRUE, index |-> i - 1, end |-> o.pos - 1, array |-> MatchArray(s, i, o)]

NotFound == [found |-> FALSE, index |-> 0, end |-> 0, array |-> <<>>]

\* The match of re in s from position i, where it matches.
FoundAt(re, s, i) == Found(s, i, Head(MatchAt(re, s, i)))

\* The match at the first of the positions where re matches s.
FirstOf(re, s, starts) ==
  IF starts = {} THEN NotFound
  ELSE FoundAt(re, s, CHOOSE j \in starts : \A h \in starts : j <= h)

\* The match of re in s searched from the 0-based index from: null, or the
\* array of the whole match and of the value of each capturing group.
Search(re, s, from) ==
  FirstOf(re, s, {i \in (from + 1)..(Len(s) + 1) : MatchAt(re, s, i) # <<>>})

\* The RegExp object after exec found m: only a global RegExp writes
\* lastIndex.
execResult(re, m) ==
  [match  |-> m,
   regexp |-> IF re.global
              THEN [re EXCEPT !.lastIndex = IF m.found THEN m.end ELSE 0]
              ELSE re]

\* RegExp.prototype.exec: the result and the RegExp object afterwards; only
\* a global RegExp reads lastIndex.
exec(re, s) == execResult(re, Search(re, s, IF re.global THEN re.lastIndex ELSE 0))

\* String.prototype.match: null or not (the search starts at index 0).
StringMatch(s, re) == Search(re, s, 0).found

\* ---------------------------------------------------------------------
\* decodeURIComponent
\* ---------------------------------------------------------------------

HexChars == Digits \cup (Ord("A")..Ord("F")) \cup (Ord("a")..Ord("f"))

HexValue(c) ==
  IF c \in Digits THEN c - Ord("0")
  ELSE IF c \in Ord("A")..Ord("F") THEN c - Ord("A") + 10
  ELSE c - Ord("a") + 10

\* s[k] is '%' followed by two hexadecimal digits (k is 1-based).
IsEscape(s, k) ==
  /\ k + 2 <= Len(s)
  /\ s[k] = Ord("%")
  /\ s[k + 1] \in HexChars
  /\ s[k + 2] \in HexChars

EscapeByte(s, k) == 16 * HexValue(s[k + 1]) + HexValue(s[k + 2])

\* The number of octets the leading octet b announces; 0 when b cannot
\* lead a UTF-8 sequence.
Utf8Length(b) ==
  IF b < 128 THEN 1
  ELSE IF b >= 192 /\ b < 224 THEN 2
  ELSE IF b >= 224 /\ b < 240 THEN 3
  ELSE IF b >= 240 /\ b < 248 THEN 4
  ELSE 0

\* The code point of a sequence of n octets (leading octet first).
Utf8Value(octets) ==
  LET n    == Len(octets)
      lead == IF n = 2 THEN octets[1] - 192
              ELSE IF n = 3 THEN octets[1] - 224 ELSE octets[1] - 240
      v[k \in 1..n] == IF k = 1 THEN lead ELSE 64 * v[k - 1] + (octets[k] - 128)
  IN  v[n]

\* The least code point that needs n octets.
Utf8Min(n) == IF n = 2 THEN 128 ELSE IF n = 3 THEN 2048 ELSE 65536

\* The code units of a code point.
CodeUnits(v) ==
  IF v < 65536 THEN << v >>
  ELSE << 55296 + ((v - 65536) \div 1024), 56320 + ((v - 65536) % 1024) >>

URIError == [ok |-> FALSE, str |-> <<>>]

\* Decode from position k (1-based) with the result so far in acc; the
\* outcome is the decoded string or the URIError decodeURIComponent throws.
RECURSIVE Decode(_, _, _)
Decode(s, k, acc) ==
  IF k > Len(s) THEN [ok |-> TRUE, str |-> acc]
  ELSE IF s[k] # Ord("%") THEN Decode(s, k + 1, Append(acc, s[k]))
  ELSE IF ~IsEscape(s, k) THEN URIError
  ELSE LET b == EscapeByte(s, k)
           n == Utf8Length(b)
       IN  IF n = 1 THEN Decode(s, k + 3, Append(acc, b))
           ELSE IF n = 0 THEN URIError
           ELSE IF k + 3 * n - 1 > Len(s) THEN URIError
           ELSE IF \E j \in 1..(n - 1) :
                     \/ ~IsEscape(s, k + 3 * j)
                     \/ EscapeByte(s, k + 3 * j) < 128
                     \/ EscapeByte(s, k + 3 * j) >= 192
                THEN URIError
           ELSE LET v == Utf8Value([j \in 1..n |-> EscapeByte(s, k + 3 * (j - 1))])
                IN  IF \/ v < Utf8Min(n)
                       \/ v > 1114111
                       \/ (v >= 55296 /\ v <= 57343)
                    THEN URIError
                    ELSE Decode(s, k + 3 * n, acc \o CodeUnits(v))

decodeURIComponent(s) == Decode(s, 1, <<>>)

\* ---------------------------------------------------------------------
\* Objects used as maps: var params = {}
\* ---------------------------------------------------------------------

\* The properties every object inherits from Object.prototype; reading one
\* of them from {} yields a function or an object, which is truthy.
ObjectPrototype ==
  { Str(<< "c", "o", "n", "s", "t", "r", "u", "c", "t", "o", "r" >>),
    Str(<< "t", "o", "S", "t", "r", "i", "n", "g" >>),
    Str(<< "t", "o", "L", "o", "c", "a", "l", "e", "S", "t", "r", "i", "n", "g" >>),
    Str(<< "v", "a", "l", "u", "e", "O", "f" >>),
    Str(<< "h", "a", "s", "O", "w", "n", "P", "r", "o", "p", "e", "r", "t", "y" >>),
    Str(<< "i", "s", "P", "r", "o", "t", "o", "t", "y", "p", "e", "O", "f" >>),
    Str(<< "p", "r", "o", "p", "e", "r", "t", "y", "I", "s", "E", "n", "u", "m", "e", "r", "a", "b", "l", "e" >>),
    Str(<< "_", "_", "p", "r", "o", "t", "o", "_", "_" >>),
    Str(<< "_", "_", "d", "e", "f", "i", "n", "e", "G", "e", "t", "t", "e", "r", "_", "_" >>),
    Str(<< "_", "_", "d", "e", "f", "i", "n", "e", "S", "e", "t", "t", "e", "r", "_", "_" >>),
    Str(<< "_", "_", "l", "o", "o", "k", "u", "p", "G", "e", "t", "t", "e", "r", "_", "_" >>),
    Str(<< "_", "_", "l", "o", "o", "k", "u", "p", "S", "e", "t", "t", "e", "r", "_", "_" >>) }

\* An object is the sequence of its own property names in the order of their
\* creation (every own value the code stores is true).
\* params[name]: truthy for an own property and for an inherited one.
Truthy(obj, name) == name \in Range(obj) \/ name \in ObjectPrototype

\* name is an array index: a canonical decimal numeral below 2^32 - 1.
IsArrayIndex(name) ==
  /\ Len(name) >= 1
  /\ Len(name) <= 9
  /\ \A k \in 1..Len(name) : name[k] \in Digits
  /\ Len(name) > 1 => name[1] # Ord("0")

\* Object.keys(obj): the array indices in ascending numeric order, then the
\* other names in the order of their creation.
ObjectKeys(obj) ==
  LET idx    == {k \in 1..Len(obj) : IsArrayIndex(obj[k])}
      Rank(k) == Cardinality({j \in idx : parseInt(obj[j]) < parseInt(obj[k])})
      sorted == [r \in 1..Cardinality(idx) |-> obj[CHOOSE k \in idx : Rank(k) = r - 1]]
      others == SelectSeq(obj, LAMBDA n : ~IsArrayIndex(n))
  IN  sorted \o others

\* ---------------------------------------------------------------------
\* The regular expressions of lib/route.js
\* ---------------------------------------------------------------------

\* [\w\!\$&'\(\)\*\+\,;\=\:@\-\.~]
LegalChars ==
  WordChars \cup Codes({"!", "$", "&", "'", "(", ")", "*", "+", ",", ";", "=",
                        ":", "@", "-", ".", "~"})

UpperHex == Digits \cup (Ord("A")..Ord("F"))

\* [1-9]\d*
countRX == Cat(<< Class(Ord("1")..Ord("9")), Star(Class(DigitChars)) >>)

\* (\*([1-9]\d*)?)?(\?)? : the decorators paramRegex reads, the optional
\* mark after the count as well, in the place of those of the last segment
lastDecorationOfParamRegex ==
  Cat(<< Opt(Group(Cat(<< Ch(Ord("*")), Opt(Group(countRX)) >>))),
         Opt(Group(Ch(Ord("?")))) >>)

\* ((\*([1-9]\d*)?)|(\?))? : what may follow the name of the parameter of
\* the last segment
lastDecoration ==
  Opt(Group(Alt(<< Group(Cat(<< Ch(Ord("*")), Opt(Group(countRX)) >>)),
                   Group(Ch(Ord("?"))) >>)))

\* /(^\/$)|(^(\/(([\w\!\$&'\(\)\*\+\,;\=\:@\-\.~]|%[A-F0-9]{2})+|(\{\w+(\*[1-9]\d*)?\})))*(\/(\{\w+((\*([1-9]\d*)?)|(\?))?\})?)?$)/
validatePathRegex ==
  LET slash    == Ch(Ord("/"))
      content  == Plus(Group(Alt(<< Class(LegalChars),
                                    Cat(<< Ch(Ord("%")), Times(Class(UpperHex), 2) >>) >>)))
      param    == Group(Cat(<< Ch(Ord("{")), Plus(Class(WordChars)),
                               Opt(Group(Cat(<< Ch(Ord("*")), countRX >>))),
                               Ch(Ord("}")) >>))
      segments == Star(Group(Cat(<< slash, Group(Alt(<< content, param >>)) >>)))
      optparam == Opt(Group(Cat(<< Ch(Ord("{")), Plus(Class(WordChars)), lastDecoration,
                                   Ch(Ord("}")) >>)))
      last     == Opt(Group(Cat(<< slash, optparam >>)))
  IN  RegExp(Alt(<< Group(Cat(<< Bol, slash, Eol >>)),
                    Group(Cat(<< Bol, segments, last, Eol >>)) >>),
             FALSE, FALSE)

\* /%(?:2[146-9A-E]|3[\dABD]|4[\dA-F]|5[\dAF]|6[1-9A-F]|7[\dAE])/g
validatePathEncodedRegex ==
  LET Two(hi, lows) == Cat(<< Ch(Ord(hi)), Class(lows) >>)
      AtoF == Ord("A")..Ord("F")
  IN  RegExp(Cat(<< Ch(Ord("%")),
                    Alt(<< Two("2", Codes({"1", "4"}) \cup (Ord("6")..Ord("9"))
                                      \cup (Ord("A")..Ord("E"))),
                           Two("3", DigitChars \cup Codes({"A", "B", "D"})),
                           Two("4", DigitChars \cup AtoF),
                           Two("5", DigitChars \cup Codes({"A", "F"})),
                           Two("6", (Ord("1")..Ord("9")) \cup AtoF),
                           Two("7", DigitChars \cup Codes({"A", "E"})) >>) >>),
             FALSE, TRUE)

\* /^\{(\w+)(?:(\*)(\d+)?)?(\?)?\}$/     $1: name, $2: *, $3: segments, $4: optional
paramRegex ==
  RegExp(Cat(<< Bol, Ch(Ord("{")),
                Group(Plus(Class(WordChars))),
                Opt(Cat(<< Group(Ch(Ord("*"))), Opt(Group(Plus(Class(DigitChars)))) >>)),
                Opt(Group(Ch(Ord("?")))),
                Ch(Ord("}")), Eol >>),
         FALSE, FALSE)

\* Utils.escapeRegex(segment): the pattern that matches the characters of
\* the segment as literal text.
escapeRegex(segment) == Lit(segment)

\* [^\/]+
NotSlashRun == Plus(NotClass({Ord("/")}))

\* ---------------------------------------------------------------------
\* internals.Route.prototype._generateRegex
\* ---------------------------------------------------------------------

NoError          == "none"
MissingPath      == "Route options missing path"
InvalidPath      == "Invalid path"
EncodedPath      == "Path cannot contain encoded non-reserved path characters"
RepeatedName     == "Cannot repeat the same parameter name"

\* The fragment of one parameter segment: '\\/' and the capturing group.
\* segmentRX with the count itself for the number of further segments,
\* where the code has multiCount - 1
segmentRXOneMore(isMulti, multiCount) ==
  LET sep == Cat(<< Ch(Ord("/")), NotSlashRun >>)
  IN  IF isMulti
      THEN IF multiCount # 0
           THEN Cat(<< Ch(Ord("/")),
                       Group(Cat(<< NotSlashRun, Times(sep, multiCount) >>)) >>)
           ELSE Cat(<< Ch(Ord("/")), Group(Cat(<< NotSlashRun, Star(sep) >>)) >>)
      ELSE Cat(<< Ch(Ord("/")), Group(NotSlashRun) >>)

segmentRX(isMulti, multiCount) ==
  LET sep == Cat(<< Ch(Ord("/")), NotSlashRun >>)
  IN  IF isMulti
      THEN IF multiCount # 0
           THEN Cat(<< Ch(Ord("/")),
                       Group(Cat(<< NotSlashRun, Times(sep, multiCount - 1) >>)) >>)
           ELSE Cat(<< Ch(Ord("/")), Group(Cat(<< NotSlashRun, Star(sep) >>)) >>)
      ELSE Cat(<< Ch(Ord("/")), Group(NotSlashRun) >>)

\* paramRX with the unit optional under both settings of the trailing
\* slash
paramRXAlwaysOptional(isMulti, multiCount, isOptional, trailingSlashOptional) ==
  IF isOptional \/ (isMulti /\ multiCount = 0)
  THEN Opt(Alt(<< Ch(Ord("/")), segmentRX(isMulti, multiCount) >>))
  ELSE segmentRX(isMulti, multiCount)

\* paramRX without the alternative of the bare slash
paramRXNoBareSlash(isMulti, multiCount, isOptional, trailingSlashOptional) ==
  IF isOptional \/ (isMulti /\ multiCount = 0)
  THEN IF trailingSlashOptional
       THEN Opt(segmentRX(isMulti, multiCount))
       ELSE segmentRX(isMulti, multiCount)
  ELSE segmentRX(isMulti, multiCount)

\* What a parameter segment appends to pathRX.
paramRX(isMulti, multiCount, isOptional, trailingSlashOptional) ==
  IF isOptional \/ (isMulti /\ multiCount = 0)
  THEN IF trailingSlashOptional
       THEN Opt(Alt(<< Ch(Ord("/")), segmentRX(isMulti, multiCount) >>))
       ELSE Alt(<< Ch(Ord("/")), segmentRX(isMulti, multiCount) >>)
  ELSE segmentRX(isMulti, multiCount)

\* What a parameter segment appends to the fingerprint.
paramFingerprint(isMulti, multiCount) ==
  IF isMulti
  THEN IF multiCount # 0
       THEN FlatMap(LAMBDA m : Str(<< "/", "?" >>), [m \in 1..multiCount |-> m])
       ELSE Str(<< "/", "?", "*" >>)
  ELSE Str(<< "/", "?" >>)

\* What a literal segment appends to pathRX.
literalRX(segment, trailingSlashOptional) ==
  IF segment # <<>>
  THEN Cat(<< Ch(Ord("/")), escapeRegex(segment) >>)
  ELSE IF trailingSlashOptional THEN Opt(Ch(Ord("/"))) ELSE Ch(Ord("/"))

\* The test of the assertion !params[name].
NameIsFree(params, name) == ~Truthy(params, name)

\* generateParam with the name of the parameter in the fingerprint
generateParamNamed(acc, param, trailingSlashOptional) ==
  LET name       == param[2].str
      isMulti    == param[3].defined
      multiCount == IF param[4].defined THEN parseInt(param[4].str) ELSE 0
      isOptional == param[5].defined
  IN  IF ~NameIsFree(acc.params, name)
      THEN [acc EXCEPT !.error = RepeatedName]
      ELSE [acc EXCEPT
              !.params      = Append(@, name),
              !.pathRX      = Append(@, paramRX(isMulti, multiCount, isOptional,
                                                trailingSlashOptional)),
              !.fingerprint = @ \o Str(<< "/", "?" >>) \o name]

\* The parameter branch of the loop body; param is the array of
\* segment.match(paramRegex).
generateParam(acc, param, trailingSlashOptional) ==
  LET name       == param[2].str
      isMulti    == param[3].defined
      multiCount == IF param[4].defined THEN parseInt(param[4].str) ELSE 0
      isOptional == param[5].defined
  IN  IF ~NameIsFree(acc.params, name)
      THEN [acc EXCEPT !.error = RepeatedName]
      ELSE [acc EXCEPT
              !.params      = Append(@, name),
              !.pathRX      = Append(@, paramRX(isMulti, multiCount, isOptional,
                                                trailingSlashOptional)),
              !.fingerprint = @ \o paramFingerprint(isMulti, multiCount)]

\* The literal branch of the loop body.
generateLiteral(acc, segment, trailingSlashOptional) ==
  [acc EXCEPT
     !.pathRX      = Append(@, literalRX(segment, trailingSlashOptional)),
     !.fingerprint = @ \o Str(<< "/" >>) \o segment]

\* The loop body, given param = segment.match(paramRegex); acc holds params,
\* pathRX (the fragments appended so far), fingerprint and the error thrown,
\* if any.
generateBranch(acc, segment, param, trailingSlashOptional) ==
  IF acc.error # NoError THEN acc
  ELSE IF param.found THEN generateParam(acc, param.array, trailingSlashOptional)
  ELSE generateLiteral(acc, segment, trailingSlashOptional)

\* One turn of the loop over the segments.
generateSegment(acc, segment, trailingSlashOptional) ==
  generateBranch(acc, segment, Search(paramRegex, segment, 0), trailingSlashOptional)

\* generateResult with the flag g on the RegExp, so that exec starts at
\* lastIndex and moves it
generateResultGlobal(out, router) ==
  IF out.error # NoError
  THEN [error |-> out.error, regexp |-> RegExp(Cat(<<>>), FALSE, FALSE),
        fingerprint |-> <<>>, params |-> <<>>]
  ELSE [error       |-> NoError,
        regexp      |-> RegExp(Cat(<< Bol >> \o out.pathRX \o << Eol >>),
                               ~router.isCaseSensitive, TRUE),
        fingerprint |-> IF router.isCaseSensitive THEN out.fingerprint
                        ELSE toLowerCase(out.fingerprint),
        params      |-> ObjectKeys(out.params)]

\* The end of _generateRegex: this.regexp, this.fingerprint and this.params
\* from the loop's pathRX, fingerprint and params.
generateResult(out, router) ==
  IF out.error # NoError
  THEN [error |-> out.error, regexp |-> RegExp(Cat(<<>>), FALSE, FALSE),
        fingerprint |-> <<>>, params |-> <<>>]
  ELSE [error       |-> NoError,
        regexp      |-> RegExp(Cat(<< Bol >> \o out.pathRX \o << Eol >>),
                               ~router.isCaseSensitive, FALSE),
        fingerprint |-> IF router.isCaseSensitive THEN out.fingerprint
                        ELSE toLowerCase(out.fingerprint),
        params      |-> ObjectKeys(out.params)]

\* The loop of _generateRegex over the segments from the second on.
generateLoop(segments, trailingSlashOptional) ==
  LET loop[i \in 1..Len(segments)] ==
        IF i = 1
        THEN [params |-> <<>>, pathRX |-> <<>>, fingerprint |-> <<>>, error |-> NoError]
        ELSE generateSegment(loop[i - 1], segments[i], trailingSlashOptional)
  IN  loop[Len(segments)]

\* _generateRegex for this.path = path under the router settings: the
\* error it throws, or regexp, params and fingerprint.
generateRegex(path, router) ==
  generateResult(generateLoop(split(path), ~router.isTrailingSlashSensitive), router)

\* A constructor call that threw error.
Thrown(path, error) ==
  [error |-> error, path |-> path, regexp |-> RegExp(Cat(<<>>), FALSE, FALSE),
   fingerprint |-> <<>>, params |-> <<>>]

\* The Route object set up by _generateRegex.
Generated(path, g) ==
  [error |-> g.error, path |-> path, regexp |-> g.regexp,
   fingerprint |-> g.fingerprint, params |-> g.params]

\* settings.path.match(internals.Route.validatePathRegex)
ValidPath(path) == StringMatch(path, validatePathRegex)

\* settings.path.match(internals.Route.validatePathEncodedRegex) === null
NoEncodedPath(path) == ~StringMatch(path, validatePathEncodedRegex)

\* The Route constructor as far as the path goes: the assertions on
\* settings.path, then _generateRegex.
Route(path, router) ==
  IF path = <<>> THEN Thrown(path, MissingPath)
  ELSE IF ~ValidPath(path) THEN Thrown(path, InvalidPath)
  ELSE IF ~NoEncodedPath(path) THEN Thrown(path, EncodedPath)
  ELSE Generated(path, generateRegex(path, router))

\* ---------------------------------------------------------------------
\* internals.Route.prototype.match and test
\* ---------------------------------------------------------------------

\* request.params = {}: no property
EmptyObject == [k \in {} |-> Undefined]

\* obj[key] = value
Put(obj, key, value) ==
  [k \in DOMAIN obj \cup {key} |-> IF k = key THEN value ELSE obj[k]]

\* decodeCapture with the value as it was captured where it cannot be
\* decoded, in the place of the return of the catch block
decodeCaptureRaw(acc, key, value, dec) ==
  IF ~value.defined
  THEN [acc EXCEPT !.params = Put(@, key, Undefined),
                   !._paramsArray = Append(@, Undefined)]
  ELSE IF ~dec.ok
  THEN [acc EXCEPT !.params = Put(@, key, value),
                   !._paramsArray = Append(@, value)]
  ELSE [acc EXCEPT !.params = Put(@, key, Defined(dec.str)),
                   !._paramsArray = Append(@, Defined(dec.str))]

\* The try block for one capture: value is match[i], dec its decoding.
decodeCapture(acc, key, value, dec) ==
  IF ~value.defined
  THEN [acc EXCEPT !.params = Put(@, key, Undefined),
                   !._paramsArray = Append(@, Undefined)]
  ELSE IF ~dec.ok
  THEN [acc EXCEPT !.caught = TRUE]
  ELSE [acc EXCEPT !.params = Put(@, key, Defined(dec.str)),
                   !._paramsArray = Append(@, Defined(dec.str))]

\* The body of the loop over the captures: i is the index into match.
\* acc carries request.params, request._paramsArray and whether the catch
\* block has returned.
matchCapture(acc, i, m, params) ==
  IF acc.caught \/ i > Len(params) THEN acc
  ELSE decodeCapture(acc, params[i], m[i + 1], decodeURIComponent(m[i + 1].str))

\* The loop of match over match[1], match[2], ...
matchLoop(m, params) ==
  LET loop[i \in 0..(Len(m) - 1)] ==
        IF i = 0
        THEN [params |-> EmptyObject, _paramsArray |-> <<>>, caught |-> FALSE]
        ELSE matchCapture(loop[i - 1], i, m, params)
  IN  IF Len(params) > 0 THEN loop[Len(m) - 1] ELSE loop[0]

\* match after the loop: out is what the loop left.
matchReturn(request, e, out) ==
  [ret     |-> ~out.caught,
   request |-> [request EXCEPT !.params = out.params,
                               !._paramsArray = out._paramsArray],
   regexp  |-> e.regexp,
   match   |-> e.match.array]

\* match, given e = this.regexp.exec(request.path).
matchExec(route, request, e) ==
  IF ~e.match.found
  THEN [ret |-> FALSE, request |-> request, regexp |-> e.regexp, match |-> <<>>]
  ELSE matchReturn(request, e, matchLoop(e.match.array, route.params))

\* route.match(request): the value returned, the request and the RegExp
\* afterwards, and the array exec returned.
match(route, request) == matchExec(route, request, exec(route.regexp, request.path))

testExec(e) == [ret |-> e.match.found, regexp |-> e.regexp]

\* route.test(path): the value returned and the RegExp afterwards.
test(route, path) == testExec(exec(route.regexp, path))

\* ---------------------------------------------------------------------
\* The state machine
\* ---------------------------------------------------------------------

VARIABLES
  settings,   \* server.settings: router.isTrailingSlashSensitive, router.isCaseSensitive
  routes,     \* the Route objects constructed, by name; NoRoute before
  requests,   \* the request objects: path, params, _paramsArray
  result      \* the last call: what was called, on what, and its outcome

vars == << settings, routes, requests, result >>

NewRequest(path) == [path |-> path, params |-> EmptyObject, _paramsArray |-> <<>>]

\* no route, no request: the empty function
None == [k \in {} |-> 0]

\* "/" + segment, for each segment
Join(segments) == FlatMap(LAMBDA x : Str(<< "/" >>) \o x, segments)

\* The strings of at most n segments drawn from pool.
Paths(pool, n) == {Join(ss) : ss \in UNION {[1..k -> pool] : k \in 0..n}}

Result(op, route, request, ret, error, m) ==
  [op |-> op, route |-> route, request |-> request, ret |-> ret, error |-> error,
   match |-> m]

Init ==
  /\ settings \in [router : [isTrailingSlashSensitive : BOOLEAN, isCaseSensitive : BOOLEAN]]
  /\ routes = None
  /\ requests = None
  /\ result = Result("init", "", "", FALSE, NoError, <<>>)

\* The effect of a constructor call that returned or threw.
Constructed(r, route) ==
  /\ routes' = IF route.error = NoError
               THEN [k \in DOMAIN routes \cup {r} |-> IF k = r THEN route ELSE routes[k]]
               ELSE routes
  /\ result' = Result("new", r, "", route.error = NoError, route.error,
                      << Defined(route.path) >>)

\* r = new Route({ path: path, ... }, server), during the setup of the
\* server: before the first request, and as long as no assertion has failed.
Construct(r, path) ==
  /\ r \notin DOMAIN routes
  /\ DOMAIN requests = {}
  /\ result.error = NoError
  /\ \E router \in {settings.router} : Constructed(r, Route(path, router))
  /\ UNCHANGED << settings, requests >>

\* The request q arrives, for path, at the server that was set up.
Receive(q, path) ==
  /\ q \notin DOMAIN requests
  /\ DOMAIN routes # {}
  /\ result.error = NoError
  /\ requests' = [k \in DOMAIN requests \cup {q} |->
                    IF k = q THEN NewRequest(path) ELSE requests[k]]
  /\ result' = Result("request", "", q, TRUE, NoError, <<>>)
  /\ UNCHANGED << settings, routes >>

Matched(r, q, m) ==
  /\ requests' = [requests EXCEPT ![q] = m.request]
  /\ routes' = [routes EXCEPT ![r].regexp = m.regexp]
  /\ result' = Result("match", r, q, m.ret, NoError, m.match)

\* routes[r].match(requests[q])
Match(r, q) ==
  /\ \E route \in {routes[r]}, request \in {requests[q]} :
       Matched(r, q, match(route, request))
  /\ UNCHANGED settings

Tested(r, q, t) ==
  /\ routes' = [routes EXCEPT ![r].regexp = t.regexp]
  /\ result' = Result("test", r, q, t.ret, NoError, <<>>)

\* routes[r].test(requests[q].path)
Test(r, q) ==
  /\ \E route \in {routes[r]}, path \in {requests[q].path} :
       Tested(r, q, test(route, path))
  /\ UNCHANGED << settings, requests >>

\* --- the bounds and the inputs ---------------------------------------

\* the most segments of a template
MaxSegments == 2
\* the most segments of a request path
MaxPathSegments == 3

\* The segments templates are made of: the empty segment, a literal, each
\* form of parameter, and segments the constructor rejects.
TemplateSegments ==
  { <<>>, Str(<< "X" >>), Str(<< "{", "a", "}" >>), Str(<< "{", "1", "}" >>), Str(<< "{", "a", "?", "}" >>),
    Str(<< "{", "a", "*", "}" >>), Str(<< "{", "a", "*", "2", "}" >>), Str(<< "{", "a", "*", "2", "?", "}" >>), Str(<< "{", "a", "*", "?", "}" >>),
    Str(<< "%", "4" >>), Str(<< "%", "4", "1" >>), Str(<< "{", "c", "o", "n", "s", "t", "r", "u", "c", "t", "o", "r", "}" >>) }

\* The segments request paths are made of.
PathSegments == { <<>>, Str(<< "x" >>), Str(<< "%" >>) }

Templates    == Paths(TemplateSegments, MaxSegments)
RequestPaths == Paths(PathSegments, MaxPathSegments)

RouteIds   == {"r1"}
RequestIds == {"q1"}

NewRoute   == \E r \in RouteIds, path \in Templates : Construct(r, path)
Request    == \E q \in RequestIds, path \in RequestPaths : Receive(q, path)
MatchRoute == \E r \in DOMAIN routes, q \in DOMAIN requests : Match(r, q)
TestRoute  == \E r \in DOMAIN routes, q \in DOMAIN requests : Test(r, q)

Next == NewRoute \/ Request \/ MatchRoute \/ TestRoute

Spec == Init /\ [][Next]_vars

\* --- the setup of a server with two routes ------------------------------

\* the most segments of a template of the setup
MaxSetupSegments == 2

\* The segments of the templates of the first route and of the second:
\* literals that differ in the case of a letter or in their text, and
\* parameters of the same shapes under other names.
SetupSegments ==
  << { Str(<< "X" >>), Str(<< "{", "a", "}" >>), Str(<< "{", "a", "*", "2", "}" >>),
       Str(<< "{", "a", "?", "}" >>) },
     { Str(<< "x" >>), Str(<< "y" >>), Str(<< "{", "b", "}" >>),
       Str(<< "{", "b", "*", "2", "}" >>), Str(<< "{", "b", "?", "}" >>) } >>

SetupTemplates(n) == Paths(SetupSegments[n], MaxSetupSegments) \ { <<>> }

SetupRouteIds == << "r1", "r2" >>

\* The routes are added one after the other.
NewRouteInTurn ==
  \E n \in {Cardinality(DOMAIN routes) + 1} :
    /\ n <= Len(SetupRouteIds)
    /\ \E path \in SetupTemplates(n) : Construct(SetupRouteIds[n], path)

NextSetup == NewRouteInTurn

SpecSetup == Init /\ [][NextSetup]_vars

\* --- two routes serving two requests ------------------------------------

SeqTemplates ==
  { Str(<< "/", "x" >>), Str(<< "/", "{", "a", "}" >>),
    Str(<< "/", "x", "/", "{", "a", "*", "}" >>) }

SeqPaths ==
  { Str(<< "/", "x" >>), Str(<< "/", "%", "7", "8" >>),
    Str(<< "/", "x", "/", "y", "/", "%" >>) }

SeqRouteIds   == {"r1", "r2"}
SeqRequestIds == {"q1", "q2"}

NewRouteSeq == \E r \in SeqRouteIds, path \in SeqTemplates : Construct(r, path)
RequestSeq  == \E q \in SeqRequestIds, path \in SeqPaths : Receive(q, path)

NextSeq == NewRouteSeq \/ RequestSeq \/ MatchRoute \/ TestRoute

SpecSeq == Init /\ [][NextSeq]_vars

\* ---------------------------------------------------------------------
\* The vocabulary of the claims: templates and paths read segment by
\* segment, without the regular expressions of the code.
\* ---------------------------------------------------------------------

\* The segments of "/s1/s2/...": what follows each slash.
SegmentsOf(path) == Tail(split(path))

IsName(s) == Len(s) >= 1 /\ \A k \in 1..Len(s) : s[k] \in WordChars

Braced(seg) == Len(seg) >= 3 /\ seg[1] = Ord("{") /\ seg[Len(seg)] = Ord("}")

\* what stands between the braces
Inner(seg) == SubSeq(seg, 2, Len(seg) - 1)

\* a count: decimal digits, at least 1, no leading zero
IsCount(s) ==
  Len(s) >= 1 /\ (\A k \in 1..Len(s) : s[k] \in Digits) /\ s[1] # Ord("0")

\* {name}
IsSingle(seg) == Braced(seg) /\ IsName(Inner(seg))

\* {name?}
IsOptional(seg) ==
  /\ Braced(seg)
  /\ Len(seg) >= 4
  /\ seg[Len(seg) - 1] = Ord("?")
  /\ IsName(SubSeq(seg, 2, Len(seg) - 2))

\* {name*}
IsUnbounded(seg) ==
  /\ Braced(seg)
  /\ Len(seg) >= 4
  /\ seg[Len(seg) - 1] = Ord("*")
  /\ IsName(SubSeq(seg, 2, Len(seg) - 2))

\* {name*N}
IsFixed(seg) ==
  /\ Braced(seg)
  /\ \E k \in 3..(Len(seg) - 2) :
       /\ seg[k] = Ord("*")
       /\ IsName(SubSeq(seg, 2, k - 1))
       /\ IsCount(SubSeq(seg, k + 1, Len(seg) - 1))

\* {name*N?} and {name*?}
IsFixedOptional(seg) ==
  /\ Braced(seg)
  /\ Len(seg) >= 5
  /\ seg[Len(seg) - 1] = Ord("?")
  /\ \E k \in 3..(Len(seg) - 2) :
       /\ seg[k] = Ord("*")
       /\ IsName(SubSeq(seg, 2, k - 1))
       /\ \A j \in (k + 1)..(Len(seg) - 2) : seg[j] \in Digits

\* one of the four parameter tokens
IsParameter(seg) == IsSingle(seg) \/ IsOptional(seg) \/ IsUnbounded(seg) \/ IsFixed(seg)

\* a parameter that must be present
IsRequired(seg) == IsSingle(seg) \/ IsFixed(seg)

\* a non-empty literal: legal path characters and percent-encoded octets
IsLiteral(seg) ==
  /\ Len(seg) >= 1
  /\ \A k \in 1..Len(seg) :
       \/ seg[k] \in LegalChars
       \/ /\ seg[k] = Ord("%")
          /\ k + 2 <= Len(seg)
          /\ seg[k + 1] \in UpperHex
          /\ seg[k + 2] \in UpperHex

\* the name of a parameter token: from the brace to the first decorator
ParameterName(seg) ==
  LET stop == CHOOSE k \in 2..Len(seg) :
                /\ seg[k] \notin WordChars
                /\ \A j \in 2..(k - 1) : seg[j] \in WordChars
  IN  SubSeq(seg, 2, stop - 1)

\* the number of path segments a required segment of a template takes
Arity(seg) ==
  IF IsFixed(seg)
  THEN parseInt(SubSeq(seg, 1 + (CHOOSE k \in 3..Len(seg) : seg[k] = Ord("*")) , Len(seg) - 1))
  ELSE 1

\* The last call was the construction of a Route from template.
ConstructedFrom == result.match[1].str

\* ---------------------------------------------------------------------
\* The claims
\* ---------------------------------------------------------------------

\* The captures of the last match: match[1], match[2], ...
Captures == Tail(result.match)

Undecodable(value) == value.defined /\ ~decodeURIComponent(value.str).ok

\* The last call was a match whose pattern matched the path and one of
\* whose captures cannot be decoded.
DecodeFails ==
  /\ result.op = "match"
  /\ result.match # <<>>
  /\ \E i \in 1..Len(Captures) : Undecodable(Captures[i])

\* C1: when the pattern matches the path and the percent-decoding of a
\* captured value fails, match returns false; it returns no success and
\* throws nothing.
C1_DecodeFailureIsNoMatch ==
  DecodeFails => (result.ret = FALSE /\ result.error = NoError)

C1_Witness == DecodeFails /\ result.ret = FALSE

\* C2: a match call that returns false leaves request.params and
\* request._paramsArray of the request as they were before the call.
C2_NoMatchLeavesRequest ==
  [][(result'.op = "match" /\ result'.ret = FALSE) => requests' = requests]_vars

\* A match has returned false after it stored the value of a capture.
C2_Witness ==
  /\ result.op = "match"
  /\ result.ret = FALSE
  /\ requests[result.request]._paramsArray # <<>>

\* The sum of the arities of the segments.
RECURSIVE TotalArity(_)
TotalArity(segments) ==
  IF segments = <<>> THEN 0 ELSE Arity(Head(segments)) + TotalArity(Tail(segments))

\* segments[1..k-1] take the path segments up to Offset(segments, k)
Offset(segments, k) == TotalArity(SubSeq(segments, 1, k - 1))

SameText(a, b, ignoreCase) ==
  IF ignoreCase THEN toLowerCase(a) = toLowerCase(b) ELSE a = b

\* "s1/s2/.../sn"
JoinSlash(segments) == Tail(Join(segments))

\* every segment is a non-empty literal or a required parameter
AllRequired(segments) ==
  \A k \in 1..Len(segments) : segments[k] # <<>> /\ ~IsOptional(segments[k])
                              /\ ~IsUnbounded(segments[k])

\* The path segments are, position by position, what the template
\* segments ask for: the text of each literal, and N non-empty segments
\* for each required parameter of arity N.
Fits(tsegs, psegs, ignoreCase) ==
  /\ Len(psegs) = TotalArity(tsegs)
  /\ \A j \in 1..Len(psegs) : psegs[j] # <<>>
  /\ \A k \in 1..Len(tsegs) :
       IsParameter(tsegs[k]) \/ SameText(psegs[Offset(tsegs, k) + 1], tsegs[k], ignoreCase)

\* the number of parameters among segments[1..k]
ParametersUpTo(segments, k) == Cardinality({j \in 1..k : IsParameter(segments[j])})

\* The last call was a match or a test.
Called == result.op \in {"match", "test"}

\* The pattern of the route accepted the path of the last call.
Accepted ==
  \/ result.op = "test" /\ result.ret
  \/ result.op = "match" /\ result.match # <<>>

CalledTemplate == SegmentsOf(routes[result.route].path)
CalledPath     == SegmentsOf(requests[result.request].path)
IgnoreCase     == ~settings.router.isCaseSensitive

\* the template ends with {x?} or {x*}
EndsOptional(tsegs) ==
  Len(tsegs) >= 1 /\ (IsOptional(tsegs[Len(tsegs)]) \/ IsUnbounded(tsegs[Len(tsegs)]))

Front(seq) == SubSeq(seq, 1, Len(seq) - 1)

\* The last call gave a route P + "/{x?}" or P + "/{x*}" the path P.
UnitAbsent ==
  /\ Called
  /\ \E tsegs \in {CalledTemplate}, psegs \in {CalledPath} :
       EndsOptional(tsegs) /\ Fits(Front(tsegs), psegs, IgnoreCase)

\* The last call gave a route P + "/{x?}" or P + "/{x*}" the path P + "/".
BareSlash ==
  /\ Called
  /\ \E tsegs \in {CalledTemplate}, psegs \in {CalledPath} :
       /\ EndsOptional(tsegs)
       /\ Len(psegs) >= 1
       /\ psegs[Len(psegs)] = <<>>
       /\ Fits(Front(tsegs), Front(psegs), IgnoreCase)

\* C3 as stated: a route whose template is P + "/{x?}" or P + "/{x*}"
\* accepts the path P, whatever isTrailingSlashSensitive is.
C3_AbsentUnitAccepted == UnitAbsent => Accepted

\* C3: a route whose template is P + "/{x?}" or P + "/{x*}" accepts the
\* path P if and only if isTrailingSlashSensitive is false.
C3_AbsentUnitAcceptedIffInsensitive ==
  UnitAbsent => (Accepted <=> ~settings.router.isTrailingSlashSensitive)

C3_Witness ==
  UnitAbsent /\ ~Accepted /\ settings.router.isTrailingSlashSensitive

\* C4 as stated: a route whose template is P + "/{x?}" or P + "/{x*}"
\* accepts the path P + "/" if and only if isTrailingSlashSensitive is
\* false.
C4_BareSlashAcceptedIffInsensitive ==
  BareSlash => (Accepted <=> ~settings.router.isTrailingSlashSensitive)

\* C4: a route whose template is P + "/{x?}" or P + "/{x*}" accepts the
\* path P + "/" under both values of isTrailingSlashSensitive.
C4_BareSlashAccepted == BareSlash => Accepted

C4_Witness ==
  BareSlash /\ Accepted /\ settings.router.isTrailingSlashSensitive

\* The last call was new Route for a template that is not empty.
Constructing == result.op = "new" /\ ConstructedFrom # <<>>

\* The last call was new Route, and the template passed the assertions of
\* the constructor on settings.path.
Validated ==
  result.op = "new" /\ result.error \notin {MissingPath, InvalidPath, EncodedPath}

\* The grammar as stated: "/", or segments each of which is a literal or
\* one of the four parameter tokens, wherever it stands.
StatedGrammar(path) ==
  \/ path = Str(<< "/" >>)
  \/ /\ path # <<>>
     /\ path[1] = Ord("/")
     /\ \A seg \in Range(SegmentsOf(path)) : IsLiteral(seg) \/ IsParameter(seg)

\* The grammar of the code: {name?}, {name*} and the empty segment of a
\* trailing slash only in the last place.
LastPlaceGrammar(path) ==
  /\ path # <<>>
  /\ path[1] = Ord("/")
  /\ \E segs \in {SegmentsOf(path)} :
       /\ \A k \in 1..(Len(segs) - 1) : IsLiteral(segs[k]) \/ IsRequired(segs[k])
       /\ \/ segs[Len(segs)] = <<>>
          \/ IsLiteral(segs[Len(segs)])
          \/ IsParameter(segs[Len(segs)])

\* C5 as stated: a template passes validatePathRegex if and only if it is
\* "/" or a sequence of segments each of which, at any position, is a
\* non-empty literal or {name}, {name?}, {name*} or {name*N}.
C5_ValidIffStatedGrammar ==
  Constructing =>
    \A path \in {ConstructedFrom} : (result.error # InvalidPath) <=> StatedGrammar(path)

\* C5: a non-empty template passes validatePathRegex if and only if it is
\* a sequence of "/"-prefixed segments of which every one but the last is
\* a non-empty literal, {name} or {name*N}, and the last is one of these,
\* empty, {name?} or {name*}; {name*N?} and {name*?} pass nowhere.
C5_ValidIffLastPlaceGrammar ==
  Constructing =>
    \A path \in {ConstructedFrom} : (result.error # InvalidPath) <=> LastPlaceGrammar(path)

\* The validator has refused a template for an optional parameter that is
\* not its last segment.
C5_Witness ==
  /\ Constructing
  /\ result.error = InvalidPath
  /\ \E segs \in {SegmentsOf(ConstructedFrom)} :
       /\ Len(segs) = 2
       /\ IsOptional(segs[1])
       /\ IsLiteral(segs[2])

\* two parameter segments of the template have the same name
RepeatsName(path) ==
  \E segs \in {SegmentsOf(path)} :
    \E i, j \in 1..Len(segs) :
      /\ i < j
      /\ IsParameter(segs[i])
      /\ IsParameter(segs[j])
      /\ ParameterName(segs[i]) = ParameterName(segs[j])

\* C6: the compilation of a validated template is rejected if and only
\* if two of its parameter segments have the same name.
C6_RejectedIffRepeatedName ==
  Validated =>
    \A path \in {ConstructedFrom} : (result.error # NoError) <=> RepeatsName(path)

\* The compilation of a template that repeats no name has been rejected.
C6_Witness ==
  /\ Validated
  /\ result.error = RepeatedName
  /\ \E path \in {ConstructedFrom} : ~RepeatsName(path)

\* The value captured for the parameter tsegs[k] when psegs fits tsegs.
Taken(tsegs, psegs, k) ==
  JoinSlash(SubSeq(psegs, Offset(tsegs, k) + 1, Offset(tsegs, k) + Arity(tsegs[k])))

\* The captures are, for each parameter of tsegs in turn, the path
\* segments it takes joined by "/".
CapturesTaken(tsegs, psegs, captures) ==
  \A k \in 1..Len(tsegs) :
    IsParameter(tsegs[k]) =>
      captures[ParametersUpTo(tsegs, k)] = Defined(Taken(tsegs, psegs, k))

\* The last call was for a route all of whose segments are non-empty
\* literals and required parameters, one parameter at least.
RequiredOnly ==
  /\ Called
  /\ \E tsegs \in {CalledTemplate} :
       AllRequired(tsegs) /\ \E k \in 1..Len(tsegs) : IsParameter(tsegs[k])

\* C7: in a template of literals and required parameters, each parameter
\* of arity N ({name}: 1, {name*N}: N) takes exactly N consecutive
\* non-empty path segments, and what it captures is these segments joined
\* by "/"; a path with fewer or more segments is not accepted.
C7_RequiredTakesExactlyN ==
  RequiredOnly =>
    \A tsegs \in {CalledTemplate}, psegs \in {CalledPath} :
      /\ Accepted <=> Fits(tsegs, psegs, IgnoreCase)
      /\ (result.op = "match" /\ Accepted) => CapturesTaken(tsegs, psegs, Captures)

\* A match against a template with a {name*N}, N > 1, has captured N
\* segments of the path.
C7_Witness ==
  /\ RequiredOnly
  /\ result.op = "match"
  /\ Accepted
  /\ \E tsegs \in {CalledTemplate} :
       \E k \in 1..Len(tsegs) : IsFixed(tsegs[k]) /\ Arity(tsegs[k]) > 1

\* A route with a {name*N} has refused a path that has a segment more
\* than the template asks for.
C7_WitnessRefused ==
  /\ RequiredOnly
  /\ ~Accepted
  /\ \E tsegs \in {CalledTemplate}, psegs \in {CalledPath} :
       /\ Len(psegs) = TotalArity(tsegs) + 1
       /\ \A j \in 1..Len(psegs) : psegs[j] # <<>>

\* the names of the parameter segments, in the order of the template
RECURSIVE DeclaredNames(_)
DeclaredNames(segments) ==
  IF segments = <<>> THEN <<>>
  ELSE IF IsParameter(Head(segments))
  THEN << ParameterName(Head(segments)) >> \o DeclaredNames(Tail(segments))
  ELSE DeclaredNames(Tail(segments))

\* request.params has the names as its keys, and request._paramsArray the
\* value of each name in turn.
Aligned(names, request) ==
  /\ DOMAIN request.params = Range(names)
  /\ Len(request._paramsArray) = Len(names)
  /\ \A i \in 1..Len(names) : request._paramsArray[i] = request.params[names[i]]

\* The last call was a match that returned true.
Succeeded == result.op = "match" /\ result.ret

\* C10: after a match that returns true, the keys of request.params are
\* the declared parameter names, request._paramsArray has one entry for
\* each declared parameter, and its i-th entry is the value request.params
\* has for the i-th declared name.
C10_ParamsAlignedWithDeclaration ==
  Succeeded =>
    \A names \in {DeclaredNames(CalledTemplate)}, request \in {requests[result.request]} :
      /\ Len(Captures) = Len(names)
      /\ Aligned(names, request)

\* A match has returned true and left, under the first declared name, a
\* value that is not the first entry of request._paramsArray.
C10_Witness ==
  /\ Succeeded
  /\ \E names \in {DeclaredNames(CalledTemplate)}, request \in {requests[result.request]} :
       /\ Len(names) = 2
       /\ DOMAIN request.params = Range(names)
       /\ request._paramsArray[1] # request.params[names[1]]

\* the kind of a parameter token, with the count of a {name*N}
Kind(seg) ==
  CASE IsSingle(seg)    -> << "single", 1 >>
    [] IsOptional(seg)  -> << "optional", 1 >>
    [] IsUnbounded(seg) -> << "unbounded", 0 >>
    [] IsFixed(seg)     -> << "fixed", Arity(seg) >>

\* The two templates have parameters of the same kind and count in the
\* same places, and literals in the others.
SameKinds(s1, s2) ==
  /\ Len(s1) = Len(s2)
  /\ \A k \in 1..Len(s1) :
       IF IsParameter(s1[k])
       THEN IsParameter(s2[k]) /\ Kind(s1[k]) = Kind(s2[k])
       ELSE ~IsParameter(s2[k])

\* The literals of the two templates have the same text.
SameLiterals(s1, s2, ignoreCase) ==
  \A k \in 1..Len(s1) : IsParameter(s1[k]) \/ SameText(s1[k], s2[k], ignoreCase)

\* Two routes of the server whose templates have the same kinds.
Alike(r1, r2) ==
  SameKinds(SegmentsOf(routes[r1].path), SegmentsOf(routes[r2].path))

SameFingerprint(r1, r2) == routes[r1].fingerprint = routes[r2].fingerprint

\* The literals of the two routes have the same text, letter for letter
\* or up to the case of the letters.
SameLiteralText(r1, r2, ignoreCase) ==
  SameLiterals(SegmentsOf(routes[r1].path), SegmentsOf(routes[r2].path), ignoreCase)

\* C8 as stated: two routes of one server whose templates have the same
\* literals and the same kinds of parameter have the same fingerprint,
\* whatever the names; and they have different fingerprints when the
\* text of a literal differs.
C8_FingerprintTellsLiterals ==
  \A r1 \in DOMAIN routes, r2 \in DOMAIN routes :
    Alike(r1, r2) => (SameFingerprint(r1, r2) <=> SameLiteralText(r1, r2, FALSE))

\* C8, amended: two routes of one server whose templates have the same
\* kinds of parameter in the same places have the same fingerprint if and
\* only if their literals have the same text, whatever the names of the
\* parameters; where isCaseSensitive is false, literals that differ in
\* the case of their letters only have the same text.
C8_FingerprintTellsLiteralsUpToCase ==
  \A r1 \in DOMAIN routes, r2 \in DOMAIN routes :
    Alike(r1, r2) => (SameFingerprint(r1, r2) <=> SameLiteralText(r1, r2, IgnoreCase))

\* Two routes of the same kinds, under other parameter names and with a
\* literal that differs in case only, have the same fingerprint.
C8_Witness ==
  /\ DOMAIN routes = {"r1", "r2"}
  /\ Alike("r1", "r2")
  /\ DeclaredNames(SegmentsOf(routes["r1"].path)) # <<>>
  /\ DeclaredNames(SegmentsOf(routes["r1"].path))
       # DeclaredNames(SegmentsOf(routes["r2"].path))
  /\ ~SameLiteralText("r1", "r2", FALSE)
  /\ SameFingerprint("r1", "r2")

\* The route as _generateRegex makes it from its template.
Anew(r) == Generated(routes[r].path, generateRegex(routes[r].path, settings.router))

\* route.match(request) anew: of the route as it was made, for a request
\* that has the path and nothing else.
MatchAnew(r, q) == match(Anew(r), NewRequest(requests[q].path))

\* route.test(path) anew.
TestAnew(r, q) == test(Anew(r), requests[q].path)

\* The step is a call of match: it returns what a call anew returns, and
\* when that is true, request.params and request._paramsArray are those
\* of the call anew.
MatchAsAnew(r, q, anew) ==
  /\ result'.ret = anew.ret
  /\ result'.ret =>
       /\ requests'[q].params = anew.request.params
       /\ requests'[q]._paramsArray = anew.request._paramsArray

\* The step is a call of match or test on route r for request q.
CallOf(r, q) ==
  /\ result'.op \in {"match", "test"}
  /\ result'.route = r
  /\ result'.request = q

\* C9: a call of match or test changes nothing of any route (regexp,
\* params, fingerprint), and what it returns is what the route returns
\* for this path when nothing was called before.
C9_CallsLeaveRoutesAndDependOnPath ==
  [][\A r \in DOMAIN routes, q \in DOMAIN requests :
       CallOf(r, q) =>
         /\ routes' = routes
         /\ result'.op = "match" => MatchAsAnew(r, q, MatchAnew(r, q))
         /\ result'.op = "test" => result'.ret = TestAnew(r, q).ret]_vars

\* The second route has matched the second request, with a capture that
\* was decoded, after the first request was matched.
C9_Witness ==
  /\ DOMAIN routes = {"r1", "r2"}
  /\ DOMAIN requests = {"q1", "q2"}
  /\ result.op = "match" /\ result.route = "r2" /\ result.request = "q2"
  /\ result.ret
  /\ requests["q1"].params # EmptyObject
  /\ \E i \in 1..Len(Captures) :
       Captures[i].defined /\ requests["q2"]._paramsArray[i].str # Captures[i].str

====
